---- MODULE Spec2Model ----
(***************************************************************************)
(* A model of generate.py of creator-codie/nametrends: the pipeline        *)
(* parse_names -> compute_ranks -> calculate_trending.                      *)
(*                                                                         *)
(* Strings are sequences of one-character strings, so that slicing,         *)
(* splitting, int() and Python's string ordering are computed rather than   *)
(* assumed.                                                                 *)
(***************************************************************************)
EXTENDS Integers, Sequences, FiniteSets, TLC

VARIABLES
    pc,          \* the function the run is in, or how it ended
    years_data,  \* years[year][sex][name] = count, as a function on <<year, sex, name>>
    member,      \* parse_names: what became of the archive member read last
    row,         \* parse_names: the line of the open member read last
    ranks,       \* ranks[sex][name][year] = rank, as a function on <<sex, name, year>>
    ranks_order, \* ranks[sex]: its names in insertion order (dict order)
    done_groups, \* compute_ranks: the (year, sex) groups already iterated
    top_n,       \* calculate_trending: the requested count
    trending     \* calculate_trending: the returned list

vars == <<pc, years_data, member, row, ranks, ranks_order, done_groups, top_n, trending>>

----------------------------------------------------------------------------
(* Bounds of the model *)

\* records in a YearCountTable of the name-ordering family
MaxGroupRecords == 3
\* records in a YearCountTable of the trend family
MaxTrendRecords == 4
\* largest requested count (the smallest is -1)
MaxTopN == 2

Min(a, b) == IF a < b THEN a ELSE b
Max(a, b) == IF a > b THEN a ELSE b

----------------------------------------------------------------------------
(* Python str: code points and ordering *)

Chars == {" ", "+", ",", "-", ".", "0", "1", "2", "3", "9", "A", "B", "_",
          "a", "b", "c", "i", "l", "o", "s", "t", "v", "x", "y", "M", "F", "X"}

\* ord(c)
Ord(c) ==
    CASE c = " " -> 32 [] c = "+" -> 43 [] c = "," -> 44 [] c = "-" -> 45
      [] c = "." -> 46 [] c = "0" -> 48 [] c = "1" -> 49 [] c = "2" -> 50
      [] c = "3" -> 51 [] c = "9" -> 57 [] c = "A" -> 65 [] c = "B" -> 66
      [] c = "F" -> 70 [] c = "M" -> 77 [] c = "X" -> 88 [] c = "_" -> 95
      [] c = "a" -> 97 [] c = "b" -> 98 [] c = "c" -> 99 [] c = "i" -> 105
      [] c = "l" -> 108 [] c = "o" -> 111 [] c = "s" -> 115 [] c = "t" -> 116
      [] c = "v" -> 118 [] c = "x" -> 120 [] c = "y" -> 121

\* a < b on str: the first differing code point decides, a proper prefix is smaller
StrLess(a, b) ==
    \E i \in 1..(Min(Len(a), Len(b)) + 1) :
        /\ \A j \in 1..(i - 1) : a[j] = b[j]
        /\ \/ i > Len(a) /\ i <= Len(b)
           \/ i <= Len(a) /\ i <= Len(b) /\ Ord(a[i]) < Ord(b[i])

Al == <<"A", "l">>
Ali == <<"A", "l", "i">>
al == <<"a", "l">>
Bo == <<"B", "o">>

SexM == <<"M">>
SexF == <<"F">>
SexX == <<"X">>

----------------------------------------------------------------------------
(* YearCountTables *)

RECURSIVE SubsetsUpTo(_, _)
\* the subsets of S with at most n elements
SubsetsUpTo(S, n) ==
    IF n = 0 THEN {{}}
    ELSE LET smaller == SubsetsUpTo(S, n - 1)
         IN  smaller \cup {T \cup {k} : T \in smaller, k \in S}

\* every table with at most n records over the given keys and counts
TablesOver(keys, counts, n) ==
    UNION {[D -> counts] : D \in SubsetsUpTo(keys, n)}

Counts == {1, 2}

\* two years, a sex compute_ranks keeps and one it does not, three names
GroupKeys == {2022, 2023} \X {SexM, SexX} \X {Al, Ali, al}
\* two names of the two sexes compute_ranks keeps: three years with a gap
\* for "M", the two latest of them for "F"
TrendKeys ==
    ({2020, 2022, 2023} \X {SexM} \X {Al, Bo}) \cup ({2022, 2023} \X {SexF} \X {Al, Bo})

YearCountTables ==
    TablesOver(GroupKeys, Counts, MaxGroupRecords)
        \cup TablesOver(TrendKeys, Counts, MaxTrendRecords)

EmptyTable == [k \in {} |-> 0]

\* years_data.items() / sex_data.items(): the (year, sex) groups present
Groups(yd) == {<<k[1], k[2]>> : k \in DOMAIN yd}
\* names_counts of one group: its names
GroupNames(yd, g) == {k[3] : k \in {q \in DOMAIN yd : q[1] = g[1] /\ q[2] = g[2]}}

\* every order in which a dict holding the set S can iterate
Orders(S) ==
    {s \in [1..Cardinality(S) -> S] : \A i, j \in 1..Cardinality(S) : s[i] = s[j] => i = j}

----------------------------------------------------------------------------
(* list.sort / sorted: for the short lists of the model CPython runs a      *)
(* binary insertion sort, which is stable                                   *)

\* the elements of a list
Elems(s) == {s[i] : i \in 1..Len(s)}

\* bisect-right insertion of x into the sorted list s; lt[<<a, b>>] tells
\* whether the key of a is less than the key of b
InsertSorted(s, x, lt) ==
    LET p == Cardinality({i \in 1..Len(s) : ~lt[<<x, s[i]>>]})
    IN  SubSeq(s, 1, p) \o <<x>> \o SubSeq(s, p + 1, Len(s))

\* sorted(s, key=...)
SortedBy(s, lt) ==
    LET f[i \in 0..Len(s)] ==
            IF i = 0 THEN <<>> ELSE InsertSorted(f[i - 1], s[i], lt)
    IN  f[Len(s)]

----------------------------------------------------------------------------
(* compute_ranks *)

\* a variant of the key without the name: key=lambda kv: -kv[1]
RankKeyLessCountOnly(a, b) == (0 - a[2]) < (0 - b[2])

\* key=lambda kv: (-kv[1], kv[0]) compared as Python tuples; kv = <<name, count>>
RankKeyLess(a, b) ==
    \/ (0 - a[2]) < (0 - b[2])
    \/ (0 - a[2]) = (0 - b[2]) /\ StrLess(a[1], b[1])

\* names_counts.items() iterated in the given order
Items(yd, g, order) ==
    [i \in 1..Len(order) |-> <<order[i], yd[<<g[1], g[2], order[i]>>]>>]

\* sorted_names of one group
SortedNames(yd, g, order) ==
    LET items == Items(yd, g, order)
    IN  SortedBy(items, [p \in Elems(items) \X Elems(items) |-> RankKeyLess(p[1], p[2])])

\* the keys of the literal {"M": ..., "F": ...}
RankSexes == {SexM, SexF}

\* a variant giving equal counts one shared rank (competition ranking)
AssignRanksShared(r, g, sorted_names) ==
    LET new == {<<g[2], sorted_names[i][1], g[1]>> : i \in 1..Len(sorted_names)}
        at(k) == CHOOSE i \in 1..Len(sorted_names) : sorted_names[i][1] = k[2]
        shared(k) == 1 + Cardinality({j \in 1..Len(sorted_names) :
                                        sorted_names[j][2] > sorted_names[at(k)][2]})
    IN  [k \in DOMAIN r \cup new |-> IF k \in new THEN shared(k) ELSE r[k]]

\* a variant that rebuilds ranks[sex] for each group: ranks[sex] = {name: {year: rank}}
AssignRanksReset(r, g, sorted_names) ==
    LET new == {<<g[2], sorted_names[i][1], g[1]>> : i \in 1..Len(sorted_names)}
        kept == {k \in DOMAIN r : k[1] # g[2]}
        rankOf(k) == CHOOSE i \in 1..Len(sorted_names) : sorted_names[i][1] = k[2]
    IN  [k \in kept \cup new |-> IF k \in new THEN rankOf(k) ELSE r[k]]

\* for rank, (name, _) in enumerate(sorted_names, start=1): ranks[sex][name][year] = rank
AssignRanks(r, g, sorted_names) ==
    LET new == {<<g[2], sorted_names[i][1], g[1]>> : i \in 1..Len(sorted_names)}
        rankOf(k) == CHOOSE i \in 1..Len(sorted_names) : sorted_names[i][1] = k[2]
    IN  [k \in DOMAIN r \cup new |-> IF k \in new THEN rankOf(k) ELSE r[k]]

\* the defaultdict ranks[sex] gains a name the first time it is indexed
AppendNew(names, sorted_names) ==
    LET f[i \in 0..Len(sorted_names)] ==
            IF i = 0 THEN names
            ELSE IF \E j \in 1..Len(f[i - 1]) : f[i - 1][j] = sorted_names[i][1]
                 THEN f[i - 1]
                 ELSE Append(f[i - 1], sorted_names[i][1])
    IN  f[Len(sorted_names)]

\* the years whose sex_data loop has begun and not ended
OpenYears == {y \in {g[1] : g \in done_groups} :
                 \E g \in Groups(years_data) \ done_groups : g[1] = y}

\* one pass of the inner loop body: a (year, sex) group, lines 74-78
RankGroup ==
    /\ pc = "compute_ranks"
    /\ \E g \in Groups(years_data) \ done_groups :
          /\ OpenYears # {} => g[1] \in OpenYears
          /\ \E order \in Orders(GroupNames(years_data, g)) :
                LET sorted_names == SortedNames(years_data, g, order)
                IN  IF g[2] \in RankSexes
                    THEN /\ ranks' = AssignRanks(ranks, g, sorted_names)
                         /\ ranks_order' =
                               [ranks_order EXCEPT
                                   ![g[2]] = AppendNew(ranks_order[g[2]], sorted_names)]
                         /\ done_groups' = done_groups \cup {g}
                         /\ pc' = "compute_ranks"
                    ELSE \* ranks[sex] raises KeyError
                         /\ pc' = "KeyError"
                         /\ UNCHANGED <<ranks, ranks_order, done_groups>>
    /\ UNCHANGED <<years_data, member, row, top_n, trending>>

\* both loops are exhausted: return ranks
RankReturn ==
    /\ pc = "compute_ranks"
    /\ done_groups = Groups(years_data)
    /\ pc' = "calculate_trending"
    /\ UNCHANGED <<years_data, member, row, ranks, ranks_order, done_groups, top_n, trending>>

----------------------------------------------------------------------------
(* calculate_trending *)

\* all_years, lines 90-93
AllYears(r) == {k[3] : k \in DOMAIN r}

SetMax(S) == CHOOSE x \in S : \A y \in S : y <= x

\* last_year, line 96
LastYear(r) == SetMax(AllYears(r))
\* a variant taking the earliest year: min(all_years)
PrevYearEarliest(r) == CHOOSE x \in AllYears(r) : \A y \in AllYears(r) : x <= y
\* prev_year, line 97
PrevYear(r) == SetMax({y \in AllYears(r) : y < LastYear(r)})

\* the tuples appended for one sex, lines 101-106:
\* (name, sex, current_rank, prev_rank, improvement)
SexCandidates(r, ro, sex) ==
    LET names == ro[sex]
        ly == LastYear(r)
        py == PrevYear(r)
        f[i \in 0..Len(names)] ==
            IF i = 0 THEN <<>>
            ELSE IF <<sex, names[i], ly>> \in DOMAIN r /\ <<sex, names[i], py>> \in DOMAIN r
                 THEN Append(f[i - 1],
                             <<names[i], sex, r[<<sex, names[i], ly>>], r[<<sex, names[i], py>>],
                               r[<<sex, names[i], py>>] - r[<<sex, names[i], ly>>]>>)
                 ELSE f[i - 1]
    IN  f[Len(names)]

\* trending_list before the sort: for sex in ["M", "F"]
TrendingList(r, ro) == SexCandidates(r, ro, SexM) \o SexCandidates(r, ro, SexF)

\* a variant of the key without the current rank: (-(tup[4]), tup[0])
TrendKeyLessNoRank(a, b) ==
    \/ (0 - a[5]) < (0 - b[5])
    \/ (0 - a[5]) = (0 - b[5]) /\ StrLess(a[1], b[1])

\* key=lambda tup: (-(tup[4]), tup[2], tup[0]) compared as Python tuples
TrendKeyLess(a, b) ==
    \/ (0 - a[5]) < (0 - b[5])
    \/ (0 - a[5]) = (0 - b[5]) /\ a[3] < b[3]
    \/ (0 - a[5]) = (0 - b[5]) /\ a[3] = b[3] /\ StrLess(a[1], b[1])

\* trending_list.sort(key=...)
SortedTrending(list) ==
    SortedBy(list, [p \in Elems(list) \X Elems(list) |-> TrendKeyLess(p[1], p[2])])

\* s[:n], a negative n counting from the end
SliceTo(s, n) ==
    IF n >= 0 THEN SubSeq(s, 1, Min(n, Len(s)))
    ELSE SubSeq(s, 1, Max(0, Len(s) + n))

\* a variant whose guard is len(all_years) < 1 and that compares a lone year with itself
calculate_trending_one_year(r, ro, n) ==
    IF Cardinality(AllYears(r)) < 1 THEN <<>>
    ELSE LET ly == LastYear(r)
             cand(sex) ==
                 LET names == ro[sex]
                 IN  [i \in 1..Len(names) |->
                        <<names[i], sex, r[<<sex, names[i], ly>>], r[<<sex, names[i], ly>>], 0>>]
         IN  IF Cardinality(AllYears(r)) < 2
             THEN SliceTo(SortedTrending(cand(SexM) \o cand(SexF)), n)
             ELSE SliceTo(SortedTrending(TrendingList(r, ro)), n)

calculate_trending(r, ro, n) ==
    IF Cardinality(AllYears(r)) < 2 THEN <<>>
    ELSE SliceTo(SortedTrending(TrendingList(r, ro)), n)

TopNs == (0 - 1)..MaxTopN

\* one call of calculate_trending on the RankTable compute_ranks returned
Trending ==
    /\ pc = "calculate_trending"
    /\ \E n \in TopNs :
          /\ top_n' = n
          /\ trending' = calculate_trending(ranks, ranks_order, n)
    /\ pc' = "done"
    /\ UNCHANGED <<years_data, member, row, ranks, ranks_order, done_groups>>

----------------------------------------------------------------------------
(* The run from a parsed table: compute_ranks, then calculate_trending *)

EmptyRanks == [k \in {} |-> 0]

Init ==
    /\ pc = "compute_ranks"
    /\ years_data \in YearCountTables
    /\ member = <<>>
    /\ row = <<>>
    /\ ranks = EmptyRanks
    /\ ranks_order = [s \in RankSexes |-> <<>>]
    /\ done_groups = {}
    /\ top_n = 0
    /\ trending = <<>>

Next == RankGroup \/ RankReturn \/ Trending

Spec == Init /\ [][Next]_vars

----------------------------------------------------------------------------
(* parse_names: str helpers *)

\* s[a:b] with 0-based a and exclusive b, clamped as Python clamps a slice
Slice(s, a, b) == SubSeq(s, a + 1, Min(b, Len(s)))

\* s.startswith(p)
StartsWith(s, p) == Len(s) >= Len(p) /\ SubSeq(s, 1, Len(p)) = p
\* s.endswith(p)
EndsWith(s, p) == Len(s) >= Len(p) /\ SubSeq(s, Len(s) - Len(p) + 1, Len(s)) = p

Digits == {"0", "1", "2", "3", "9"}

\* s.strip() for the one whitespace character of the model
Strip(s) ==
    LET keep == {i \in 1..Len(s) : s[i] # " "}
    IN  IF keep = {} THEN <<>>
        ELSE SubSeq(s, CHOOSE i \in keep : \A j \in keep : i <= j,
                       CHOOSE i \in keep : \A j \in keep : j <= i)

\* the text after the optional sign of a stripped literal
Unsigned(t) == IF Len(t) > 0 /\ t[1] \in {"+", "-"} THEN SubSeq(t, 2, Len(t)) ELSE t

\* int(s) returns: surrounding whitespace, one optional sign, then digits
\* that single underscores may separate
IntValid(s) ==
    LET u == Unsigned(Strip(s))
    IN  /\ Len(u) > 0
        /\ \A i \in 1..Len(u) : u[i] \in Digits \cup {"_"}
        /\ u[1] \in Digits /\ u[Len(u)] \in Digits
        /\ \A i \in 1..(Len(u) - 1) : ~(u[i] = "_" /\ u[i + 1] = "_")

\* the value int(s) returns, for IntValid(s)
IntValue(s) ==
    LET t == Strip(s)
        u == Unsigned(t)
        f[i \in 0..Len(u)] ==
            IF i = 0 THEN 0
            ELSE IF u[i] = "_" THEN f[i - 1]
                 ELSE 10 * f[i - 1] + (Ord(u[i]) - Ord("0"))
    IN  IF t[1] = "-" THEN 0 - f[Len(u)] ELSE f[Len(u)]

\* a row of csv.reader for a line without quotes: no fields for an empty
\* line, else the text between the commas
CsvRow(line) ==
    LET f[i \in 0..Len(line)] ==
            IF i = 0 THEN <<<<>>>>
            ELSE IF line[i] = ","
                 THEN Append(f[i - 1], <<>>)
                 ELSE [f[i - 1] EXCEPT ![Len(f[i - 1])] = Append(@, line[i])]
    IN  IF Len(line) = 0 THEN <<>> ELSE f[Len(line)]

Yob == <<"y", "o", "b">>
DotTxt == <<".", "t", "x", "t">>

\* the names zf.namelist() may yield
FileNames ==
    { <<"y", "o", "b", "2", "0", "2", "3", ".", "t", "x", "t">>, \* yob2023.txt
      <<"y", "o", "b", " ", "9", "9", "9", ".", "t", "x", "t">>, \* "yob 999.txt"
      <<"y", "o", "b", "2", "0", "x", "3", ".", "t", "x", "t">>, \* yob20x3.txt
      <<"y", "o", "b", ".", "t", "x", "t">>, \* yob.txt
      <<"y", "o", "b", "2", "0", "2", "3", ".", "c", "s", "v">>, \* yob2023.csv
      <<"a", ".", "t", "x", "t">>  \* a.txt
    }

\* the lines a member may hold
Lines ==
    { <<"A", "l", ",", "M", ",", "2">>, \* Al,M,2
      <<"A", "l", ",", "M", ",", "1">>, \* Al,M,1
      <<"B", "o", ",", "F", ",", "1">>, \* Bo,F,1
      <<"A", "l", ",", "X", ",", "1">>, \* Al,X,1
      <<"A", "l", ",", "M", ",", "-", "1">>, \* Al,M,-1
      <<"B", "o", ",", "F", ",", " ", "1", "_", "0">>, \* "Bo,F, 1_0"
      <<"A", "l", ",", "M">>, \* Al,M
      <<"A", "l", ",", "M", ",", "1", ",", "2">>, \* Al,M,1,2
      <<"A", "l", ",", "M", ",", "x">>, \* Al,M,x
      <<"A", "l", ",", "M", ",", "2", "_">>, \* Al,M,2_
      <<>>  \* an empty line
    }

\* the member read last is one whose rows are read (line 54)
IsYobMember(filename) == StartsWith(filename, Yob) /\ EndsWith(filename, DotTxt)

\* years[year][sex][name] = value
Store(yd, k, v) == [q \in DOMAIN yd \cup {k} |-> IF q = k THEN v ELSE yd[q]]

\* the next name of zf.namelist(): lines 53-56
ParseMember ==
    /\ pc = "parse_names"
    /\ \E filename \in FileNames :
          /\ member' = filename
          /\ IF ~IsYobMember(filename)
             THEN pc' = "parse_names"   \* continue
             ELSE IF IntValid(Slice(filename, 3, 7))
                  THEN pc' = "parse_names"
                  ELSE pc' = "ValueError"
    /\ row' = <<>>
    /\ UNCHANGED <<years_data, ranks, ranks_order, done_groups, top_n, trending>>

\* a variant that indexes row[0], row[1], row[2] and so accepts longer rows
UnpacksAtLeast(fields) == Len(fields) >= 3

\* name, sex, count = row succeeds
Unpacks(fields) == Len(fields) = 3

\* the next row of the open member: lines 59-61
ParseRow ==
    /\ pc = "parse_names"
    /\ member # <<>>
    /\ IsYobMember(member)
    /\ \E line \in Lines :
          LET fields == CsvRow(line)
              year == IntValue(Slice(member, 3, 7))
          IN  /\ row' = <<line>>
              /\ IF ~Unpacks(fields)
                 THEN pc' = "ValueError" /\ UNCHANGED years_data
                 ELSE IF ~IntValid(fields[3])
                      THEN pc' = "ValueError" /\ UNCHANGED years_data
                      ELSE /\ pc' = "parse_names"
                           /\ years_data' =
                                 Store(years_data, <<year, fields[2], fields[1]>>,
                                       IntValue(fields[3]))
    /\ UNCHANGED <<member, ranks, ranks_order, done_groups, top_n, trending>>

\* namelist() is exhausted: return years
ParseReturn ==
    /\ pc = "parse_names"
    /\ pc' = "parsed"
    /\ UNCHANGED <<years_data, member, row, ranks, ranks_order, done_groups, top_n, trending>>

InitParse ==
    /\ pc = "parse_names"
    /\ years_data = EmptyTable
    /\ member = <<>>
    /\ row = <<>>
    /\ ranks = EmptyRanks
    /\ ranks_order = [s \in RankSexes |-> <<>>]
    /\ done_groups = {}
    /\ top_n = 0
    /\ trending = <<>>

NextParse == ParseMember \/ ParseRow \/ ParseReturn

SpecParse == InitParse /\ [][NextParse]_vars

----------------------------------------------------------------------------
(* Properties of compute_ranks, checked under Spec *)

\* compute_ranks has returned its RankTable
Returned == pc \in {"calculate_trending", "done"}

\* the entries of ranks recorded for the year and sex of group g
GroupEntries(g) == {k \in DOMAIN ranks : k[1] = g[2] /\ k[3] = g[1]}

\* the names of a group with their counts
CountOf(g, name) == years_data[<<g[1], g[2], name>>]

\* str order of the names of the model, written out: "Al" < "Ali" < "Bo" < "al"
NameOrder == <<Al, Ali, Bo, al>>
NameBefore(a, b) ==
    \E i, j \in 1..Len(NameOrder) : i < j /\ NameOrder[i] = a /\ NameOrder[j] = b

\* the ranks recorded for group g are exactly 1..K, one per name of the group
DenseGroup(g) ==
    LET names == GroupNames(years_data, g)
    IN  /\ {k[2] : k \in GroupEntries(g)} = names
        /\ {ranks[k] : k \in GroupEntries(g)} = 1..Cardinality(names)

\* C1: the ranks recorded for a (year, sex) group with K names are exactly
\* {1, ..., K}: every name of the group has one rank, no two names share a
\* rank, none is 0 or missing; for each group once its ranks are recorded,
\* and for every group of the table once compute_ranks has returned.
C1_DenseRanks ==
    /\ \A g \in done_groups : DenseGroup(g)
    /\ Returned => \A g \in Groups(years_data) : DenseGroup(g)

\* a returned table with a group of three names, two of them with equal counts
C1_Witness ==
    /\ Returned
    /\ \E g \in Groups(years_data) :
          /\ Cardinality(GroupNames(years_data, g)) = 3
          /\ \E a, b \in GroupNames(years_data, g) : a # b /\ CountOf(g, a) = CountOf(g, b)

\* name a comes before name b in the ordering of group g
Outranks(g, a, b) ==
    \/ CountOf(g, a) > CountOf(g, b)
    \/ CountOf(g, a) = CountOf(g, b) /\ NameBefore(a, b)

RankedAsOrdered(g) ==
    LET names == GroupNames(years_data, g)
    IN  \A a \in names :
           /\ <<g[2], a, g[1]>> \in DOMAIN ranks
           /\ ranks[<<g[2], a, g[1]>>] = 1 + Cardinality({b \in names : Outranks(g, b, a)})
           /\ \A b \in names :
                 (a # b /\ Outranks(g, a, b)) =>
                     /\ <<g[2], b, g[1]>> \in DOMAIN ranks
                     /\ ranks[<<g[2], a, g[1]>>] < ranks[<<g[2], b, g[1]>>]

\* C2: within a group, a name with a larger count, or with an equal count and
\* the smaller name, gets the smaller rank: rank(a) = 1 + the number of names
\* of the group that have a larger count, or an equal count and a smaller name.
C2_RankOrder ==
    /\ \A g \in done_groups : RankedAsOrdered(g)
    /\ Returned => \A g \in Groups(years_data) : RankedAsOrdered(g)

\* a returned table with a group where the name decides between equal counts
\* and the count decides against the name order
C2_Witness ==
    /\ Returned
    /\ \E g \in Groups(years_data) :
          \E a, b, c \in GroupNames(years_data, g) :
             /\ NameBefore(a, b) /\ CountOf(g, a) = CountOf(g, b)
             /\ NameBefore(a, c) /\ CountOf(g, c) > CountOf(g, a)

\* C7: compute_ranks ends normally on every table parse_names can return,
\* also one holding a sex code other than "M" and "F", and the RankTable it
\* returns has a rank for every (year, sex, name) of the input.
C7_NoFailure ==
    /\ pc # "KeyError"
    /\ Returned => \A k \in DOMAIN years_data : <<k[2], k[3], k[1]>> \in DOMAIN ranks

RECURSIVE RanksInFixedOrder(_, _, _)
\* compute_ranks run over the groups gs in one fixed order, from the table r
RanksInFixedOrder(yd, gs, r) ==
    IF gs = {} THEN r
    ELSE LET g == CHOOSE x \in gs : TRUE
             order == CHOOSE o \in Orders(GroupNames(yd, g)) : TRUE
         IN  RanksInFixedOrder(yd, gs \ {g}, AssignRanks(r, g, SortedNames(yd, g, order)))

\* the outcome of a run, whatever order it iterated in, is that of one fixed order
SameOutcome ==
    /\ Returned =>
          /\ ranks = RanksInFixedOrder(years_data, Groups(years_data), EmptyRanks)
          /\ \A g \in Groups(years_data) : g[2] \in RankSexes
    /\ pc = "KeyError" => \E g \in Groups(years_data) : g[2] \notin RankSexes

\* a step of the loop records entries of one group not yet iterated, and
\* leaves every entry recorded before as it was
WritesOwnGroup ==
    (pc = "compute_ranks" /\ pc' = "compute_ranks") =>
        \E g \in Groups(years_data) \ done_groups :
           /\ done_groups' = done_groups \cup {g}
           /\ \A k \in DOMAIN ranks : k \in DOMAIN ranks' /\ ranks'[k] = ranks[k]
           /\ \A k \in DOMAIN ranks' \ DOMAIN ranks : k[1] = g[2] /\ k[3] = g[1]

\* C10: the RankTable depends only on the contents of the YearCountTable:
\* whatever the order of the groups and of the names within a group, the run
\* ends in the same RankTable, each group writing only the entries of its own
\* year and sex and none that another group wrote.
C10_OrderIndependent == [](SameOutcome) /\ [][WritesOwnGroup]_vars

\* a returned table built from three groups, two of them of one sex
C10_Witness ==
    /\ Returned
    /\ Cardinality(Groups(years_data)) >= 3
    /\ \E g, h \in Groups(years_data) : g # h /\ g[2] = h[2]
    /\ \E g \in Groups(years_data) : Cardinality(GroupNames(years_data, g)) >= 2

----------------------------------------------------------------------------
(* Properties of calculate_trending, checked under Spec *)

\* the years appearing anywhere in the RankTable
YearsRanked == {k[3] : k \in DOMAIN ranks}
\* the greatest of them
GreatestYear == CHOOSE y \in YearsRanked : \A z \in YearsRanked : z <= y
\* the greatest strictly below it
YearBelow ==
    CHOOSE y \in YearsRanked :
       /\ y < GreatestYear
       /\ \A z \in YearsRanked : z < GreatestYear => z <= y

\* the (sex, name) pairs with a rank in both comparison years
Qualifying ==
    {q \in {<<k[1], k[2]>> : k \in DOMAIN ranks} :
        /\ <<q[1], q[2], GreatestYear>> \in DOMAIN ranks
        /\ <<q[1], q[2], YearBelow>> \in DOMAIN ranks}

\* the TrendEntry of a qualifying pair
EntryOf(q) ==
    <<q[2], q[1], ranks[<<q[1], q[2], GreatestYear>>], ranks[<<q[1], q[2], YearBelow>>],
      ranks[<<q[1], q[2], YearBelow>>] - ranks[<<q[1], q[2], GreatestYear>>]>>

\* entry a sorts strictly before entry b
TrendBefore(a, b) ==
    \/ a[5] > b[5]
    \/ a[5] = b[5] /\ a[3] < b[3]
    \/ a[5] = b[5] /\ a[3] = b[3] /\ NameBefore(a[1], b[1])

InList(e) == \E i \in 1..Len(trending) : trending[i] = e

\* C3: with at least two years and N >= 1 the result is the first min(N, C)
\* of the C qualifying candidates of both sexes, sorted by improvement
\* descending, then current rank ascending, then name ascending.
C3_TopNSorted ==
    (pc = "done" /\ top_n >= 1 /\ Cardinality(YearsRanked) >= 2) =>
        /\ Len(trending) = Min(top_n, Cardinality(Qualifying))
        /\ Len(trending) <= top_n
        /\ \A i \in 1..Len(trending) : \E q \in Qualifying : trending[i] = EntryOf(q)
        /\ \A i, j \in 1..Len(trending) :
              i < j => trending[i] # trending[j] /\ ~TrendBefore(trending[j], trending[i])
        /\ \A q \in Qualifying :
              ~InList(EntryOf(q)) =>
                  \A i \in 1..Len(trending) : ~TrendBefore(EntryOf(q), trending[i])

\* N = 1 cut a list of two candidates of equal improvement, the one with the
\* smaller current rank kept although its name is the greater
C3_Witness ==
    /\ pc = "done" /\ top_n = 1 /\ Cardinality(YearsRanked) >= 2
    /\ Cardinality(Qualifying) = 2
    /\ Len(trending) = 1
    /\ \E q \in Qualifying :
          /\ EntryOf(q) # trending[1]
          /\ EntryOf(q)[5] = trending[1][5]
          /\ NameBefore(EntryOf(q)[1], trending[1][1])

C5_NonPositiveEmpty ==
    (pc = "done" /\ top_n <= 0) => trending = <<>>

\* C6: with fewer than two distinct years in the RankTable, the empty
\* RankTable included, the result is empty for every N.
C6_InsufficientHistory ==
    (pc = "done" /\ Cardinality(YearsRanked) < 2) => trending = <<>>

\* a call with N >= 1 on a RankTable of one year holding two names
C6_Witness ==
    /\ pc = "done"
    /\ top_n >= 1
    /\ Cardinality(YearsRanked) = 1
    /\ Cardinality(DOMAIN ranks) >= 2

----------------------------------------------------------------------------
(* Properties of parse_names, checked under SpecParse *)

\* the number of fields the last row read splits into
FieldCount(line) ==
    IF line = <<>> THEN 0 ELSE 1 + Cardinality({i \in 1..Len(line) : line[i] = ","})

\* the text after the last comma
LastField(line) ==
    LET commas == {i \in 1..Len(line) : line[i] = ","}
        last == CHOOSE i \in commas : \A j \in commas : j <= i
    IN  SubSeq(line, last + 1, Len(line))

\* the row read last does not split into exactly three fields
BadFieldCount == row # <<>> /\ FieldCount(row[1]) # 3
\* the row read last has three fields and a count that is no integer
BadCount == row # <<>> /\ FieldCount(row[1]) = 3 /\ ~IntValid(LastField(row[1]))
\* the member read last has no four decimal digits in a row in its name
NoFourDigitYear ==
    /\ member # <<>>
    /\ ~\E i \in 1..(Len(member) - 3) : \A j \in i..(i + 3) : member[j] \in Digits

\* C8 as stated: parse_names fails whenever a record does not split into
\* three fields, a count is no integer, or a member's name cannot be matched
\* to a 4-digit year; it never skips the record or member and continues.
C8_FailsOnMalformed ==
    (BadFieldCount \/ BadCount \/ NoFourDigitYear) => pc = "ValueError"

\* the member read last is one parse_names reads: yob....txt
ReadMember ==
    /\ Len(member) >= 7
    /\ SubSeq(member, 1, 3) = <<"y", "o", "b">>
    /\ SubSeq(member, Len(member) - 3, Len(member)) = <<".", "t", "x", "t">>

\* C8 amended: parse_names fails whenever a member it reads (yob....txt) holds
\* a record that does not split into three fields or whose count int()
\* rejects, or has a name whose characters 3..6 int() rejects; any other
\* member is skipped without an error and none of its records is read.
C8_FailsOnMalformedRead ==
    /\ (BadFieldCount \/ BadCount) => pc = "ValueError"
    /\ (member # <<>> /\ ReadMember /\ ~IntValid(SubSeq(member, 4, 7))) => pc = "ValueError"
    /\ (member # <<>> /\ ~ReadMember) => (pc # "ValueError" /\ row = <<>>)
    /\ row # <<>> => ReadMember

\* the run ended in an error on a row of four fields
C8_Witness ==
    /\ pc = "ValueError"
    /\ row # <<>>
    /\ FieldCount(row[1]) = 4

\* C9: every count of a returned YearCountTable is non-negative.
C9_NonNegativeCounts ==
    pc = "parsed" => \A k \in DOMAIN years_data : years_data[k] >= 0

============================================================================
